---- MODULE Spec2Model ----
(***************************************************************************)
(* A model of the TACT response decoder of wownow:                         *)
(*   src/src/response/base.rs      generic table parser and field decoders *)
(*   src/src/response/summary.rs   the Summary schema                      *)
(*   src/src/response/versions.rs  the Versions schema                     *)
(*                                                                         *)
(* Text is modelled as TLA+ strings and handled character by character     *)
(* (SubSeq(s, i, i) is the i-th character).  All model inputs are ASCII,   *)
(* so bytes and characters coincide.  Rust's Result is the record          *)
(* [tag, val, err]; a panic (an abort that is not a returned Error) is the *)
(* tag "Panic".  Results are only compared tag first.                      *)
(***************************************************************************)
EXTENDS Integers, Naturals, Sequences, FiniteSets, TLC

VARIABLES
    kind,       \* which entry point runs: "summary" or "versions"
    utf8_ok,    \* whether the byte buffer is valid UTF-8
    input,      \* the response text
    pc,         \* position of the decode
    lines,      \* input.lines()
    i,          \* index of the next line of the loop in Response::try_from
    headers,    \* Option<Vec<Header>>
    seqn,       \* Option<u32>
    records,    \* Vec<Vec<&str>>
    r,          \* index of the next record to project
    out,        \* the decoded records collected so far
    result,     \* what the entry point returned
    field,      \* field-decoder specification: the Field under decode
    decoded,    \* field-decoder specification: result of each decoder tried
    lookup      \* header specification: the name a field is looked up by

vars == <<kind, utf8_ok, input, pc, lines, i, headers, seqn, records, r, out,
          result, field, decoded, lookup>>

----------------------------------------------------------------------------
(* Bounds of the model *)

\* the longest input, in lines
MaxLines == 4

\* the widest header line of the header specification, in columns
MaxCols == 3

----------------------------------------------------------------------------
(* Result / Option / Error encodings *)

NoVal == <<>>

E(name, s1, s2, n1, n2) == [name |-> name, s1 |-> s1, s2 |-> s2, n1 |-> n1, n2 |-> n2]

NoErr == E("", "", "", 0, 0)

Ok(v) == [tag |-> "Ok", val |-> v, err |-> NoErr]

Err(e) == [tag |-> "Err", val |-> NoVal, err |-> e]

Panic == [tag |-> "Panic", val |-> NoVal, err |-> NoErr]

Pending == [tag |-> "Pending", val |-> NoVal, err |-> NoErr]

None == [some |-> FALSE, v |-> NoVal]

Some(v) == [some |-> TRUE, v |-> v]

\* equality of two Results, tag first
SameResult(a, b) ==
    /\ a.tag = b.tag
    /\ a.tag = "Ok" => a.val = b.val
    /\ a.tag = "Err" => a.err = b.err

UnknownTypeName(s) == E("UnknownTypeName", s, "", 0, 0)

ExpectedColon(s) == E("ExpectedColon", s, "", 0, 0)

ExpectedBang(s) == E("ExpectedBang", s, "", 0, 0)

MultipleSeqn == E("MultipleSeqn", "", "", 0, 0)

MismatchedRecordLength(got, expected) == E("MismatchedRecordLength", "", "", got, expected)

ExpectedHeaderLine == E("ExpectedHeaderLine", "", "", 0, 0)

ExpectedSeqnLine == E("ExpectedSeqnLine", "", "", 0, 0)

ExpectedField(name) == E("ExpectedField", name, "", 0, 0)

EmptyField(s) == E("EmptyField", s, "", 0, 0)

UnexpectedType(got, want) == E("UnexpectedType", got, want, 0, 0)

\* std::num::ParseIntError, kind is Empty, InvalidDigit or PosOverflow
UnparseableInt(k) == E("UnparseableInt", k, "", 0, 0)

Utf8 == E("Utf8", "", "", 0, 0)

----------------------------------------------------------------------------
(* Text primitives of the standard library, as the code uses them.  An     *)
(* intermediate value that is used more than once is the parameter of a    *)
(* local operator, so that it is written, and computed, once.              *)

Ch(s, k) == SubSeq(s, k, k)

\* index of the first occurrence of character c in s at or after from, 0 if none
IndexFrom(s, c, from) ==
    LET First(at) == IF at = {} THEN 0 ELSE CHOOSE k \in at : \A j \in at : k <= j
    IN  First({ k \in from..Len(s) : Ch(s, k) = c })

\* the elements of a set of numbers in increasing order
RECURSIVE Sorted(_)
Sorted(S) ==
    LET From(m) == <<m>> \o Sorted(S \ {m})
    IN  IF S = {} THEN <<>> ELSE From(CHOOSE k \in S : \A j \in S : k <= j)

\* str::split(c): every piece between occurrences of c, empty pieces kept
Split(s, c) ==
    LET Pieces(at) ==
            [p \in 1..(Len(at) + 1) |->
                SubSeq(s, IF p = 1 THEN 1 ELSE at[p - 1] + 1,
                          IF p = Len(at) + 1 THEN Len(s) ELSE at[p] - 1)]
    IN  Pieces(Sorted({ k \in 1..Len(s) : Ch(s, k) = c }))

\* str::split_once(c): the text before and after the first c
SplitOnce(s, c) ==
    LET At(k) == IF k = 0 THEN None
                 ELSE Some(<<SubSeq(s, 1, k - 1), SubSeq(s, k + 1, Len(s))>>)
    IN  At(IndexFrom(s, c, 1))

\* str::strip_prefix(p)
StripPrefix(s, p) ==
    IF Len(s) >= Len(p) /\ SubSeq(s, 1, Len(p)) = p
    THEN Some(SubSeq(s, Len(p) + 1, Len(s)))
    ELSE None

StripCr(s) ==
    IF Len(s) > 0 /\ Ch(s, Len(s)) = "\r" THEN SubSeq(s, 1, Len(s) - 1) ELSE s

\* str::lines(): the text is cut after every "\n"; a line that ended in
\* "\n" loses it and then one "\r" before it; what follows the last "\n"
\* is a line, kept as it is, unless it is empty
Lines(s) ==
    LET Kept(pieces) ==
            [k \in 1..(IF pieces[Len(pieces)] = "" THEN Len(pieces) - 1 ELSE Len(pieces)) |->
                IF k < Len(pieces) THEN StripCr(pieces[k]) ELSE pieces[k]]
    IN  Kept(Split(s, "\n"))

\* char::to_uppercase on ASCII: the lower-case letters and their upper case
UpperOf ==
    ("a" :> "A") @@ ("b" :> "B") @@ ("c" :> "C") @@ ("d" :> "D") @@
    ("e" :> "E") @@ ("f" :> "F") @@ ("g" :> "G") @@ ("h" :> "H") @@
    ("i" :> "I") @@ ("j" :> "J") @@ ("k" :> "K") @@ ("l" :> "L") @@
    ("m" :> "M") @@ ("n" :> "N") @@ ("o" :> "O") @@ ("p" :> "P") @@
    ("q" :> "Q") @@ ("r" :> "R") @@ ("s" :> "S") @@ ("t" :> "T") @@
    ("u" :> "U") @@ ("v" :> "V") @@ ("w" :> "W") @@ ("x" :> "X") @@
    ("y" :> "Y") @@ ("z" :> "Z")

UpperCh(c) == IF c \in DOMAIN UpperOf THEN UpperOf[c] ELSE c

RECURSIVE ToUppercaseFrom(_, _)
ToUppercaseFrom(s, k) ==
    IF k > Len(s) THEN "" ELSE UpperCh(Ch(s, k)) \o ToUppercaseFrom(s, k + 1)

ToUppercase(s) == ToUppercaseFrom(s, 1)

DigitChars == "0123456789abcdef"

UpperDigitChars == "0123456789ABCDEF"

\* the characters that are digits in some radix up to 16, and their values
DigitOf ==
    ("0" :> 0) @@ ("1" :> 1) @@ ("2" :> 2) @@ ("3" :> 3) @@ ("4" :> 4) @@
    ("5" :> 5) @@ ("6" :> 6) @@ ("7" :> 7) @@ ("8" :> 8) @@ ("9" :> 9) @@
    ("a" :> 10) @@ ("b" :> 11) @@ ("c" :> 12) @@ ("d" :> 13) @@
    ("e" :> 14) @@ ("f" :> 15) @@ ("A" :> 10) @@ ("B" :> 11) @@
    ("C" :> 12) @@ ("D" :> 13) @@ ("E" :> 14) @@ ("F" :> 15)

\* char::to_digit(radix): the digit's value, or -1
ToDigit(c, radix) ==
    IF c \in DOMAIN DigitOf /\ DigitOf[c] < radix THEN DigitOf[c] ELSE -1

\* the digit loop of from_str_radix for an unsigned type whose largest value
\* is maxHi * radix + maxLo: left to right, the first invalid digit or the
\* first overflow ends it
RECURSIVE FromDigits(_, _, _, _, _, _)
FromDigits(s, k, acc, radix, maxHi, maxLo) ==
    LET Digit(d) ==
            IF d < 0 THEN Err(UnparseableInt("InvalidDigit"))
            ELSE IF acc > maxHi \/ (acc = maxHi /\ d > maxLo)
                 THEN Err(UnparseableInt("PosOverflow"))
            ELSE FromDigits(s, k + 1, acc * radix + d, radix, maxHi, maxLo)
    IN  IF k > Len(s) THEN Ok(acc) ELSE Digit(ToDigit(Ch(s, k), radix))

\* <unsigned>::from_str_radix: empty text, a lone sign, an optional "+",
\* no "-" for unsigned types
FromStrRadix(s, radix, maxHi, maxLo) ==
    IF s = "" THEN Err(UnparseableInt("Empty"))
    ELSE IF s = "+" \/ s = "-" THEN Err(UnparseableInt("InvalidDigit"))
    ELSE FromDigits(s, IF Ch(s, 1) = "+" THEN 2 ELSE 1, 0, radix, maxHi, maxLo)

\* str::parse::<u32>(): u32::MAX = 4294967295 = 429496729 * 10 + 5
ParseU32(s) == FromStrRadix(s, 10, 429496729, 5)

\* u8::from_str_radix(s, 16): u8::MAX = 255 = 15 * 16 + 15
ParseHexU8(s) == FromStrRadix(s, 16, 15, 15)

\* str::parse::<usize>() on the 64-bit target; values are kept below 2^31,
\* the range of the model's integers, where usize cannot overflow
ParseUsize(s) == FromStrRadix(s, 10, 214748364, 7)

\* Display for usize
RECURSIVE FormatUsize(_)
FormatUsize(n) ==
    IF n < 10 THEN Ch(DigitChars, n + 1)
    ELSE FormatUsize(n \div 10) \o Ch(DigitChars, (n % 10) + 1)

----------------------------------------------------------------------------
(* base.rs: TypeName, Type, Header *)

\* variant: the name is compared as written, without to_uppercase
TypeName_try_from_Exact(name) ==
    IF name = "STRING" THEN Ok("String")
    ELSE IF name = "HEX" THEN Ok("Hex")
    ELSE IF name = "DEC" THEN Ok("Dec")
    ELSE Err(UnknownTypeName(name))

TypeName_try_from(name) ==
    LET Match(up) ==
            IF up = "STRING" THEN Ok("String")
            ELSE IF up = "HEX" THEN Ok("Hex")
            ELSE IF up = "DEC" THEN Ok("Dec")
            ELSE Err(UnknownTypeName(name))
    IN  Match(ToUppercase(name))

TypeName_fmt(n) ==
    IF n = "String" THEN "STRING" ELSE IF n = "Hex" THEN "HEX" ELSE "DEC"

\* variant: the name is converted before the length is parsed
Type_try_from_NameFirst(type_) ==
    LET Make(length, name) ==
            IF name.tag = "Err" THEN name
            ELSE IF length.tag = "Err" THEN length
            ELSE Ok([name |-> name.val, length |-> length.val])
        Parts(sp) ==
            IF ~sp.some THEN Err(ExpectedColon(type_))
            ELSE Make(ParseUsize(sp.v[2]), TypeName_try_from(sp.v[1]))
    IN  Parts(SplitOnce(type_, ":"))

\* the length is parsed before the name is converted
Type_try_from(type_) ==
    LET Make(length, name) ==
            IF length.tag = "Err" THEN length
            ELSE IF name.tag = "Err" THEN name
            ELSE Ok([name |-> name.val, length |-> length.val])
        Parts(sp) ==
            IF ~sp.some THEN Err(ExpectedColon(type_))
            ELSE Make(ParseUsize(sp.v[2]), TypeName_try_from(sp.v[1]))
    IN  Parts(SplitOnce(type_, ":"))

Type_fmt(t) == TypeName_fmt(t.name) \o ":" \o FormatUsize(t.length)

Header_try_from(s) ==
    LET Make(name, ty) ==
            IF ty.tag = "Err" THEN ty ELSE Ok([name |-> name, type_ |-> ty.val])
        Parts(sp) ==
            IF sp.some THEN Make(sp.v[1], Type_try_from(sp.v[2]))
            ELSE Err(ExpectedBang(s))
    IN  Parts(SplitOnce(s, "!"))

\* collect::<Result<Vec<_>>>() over the pieces: the first Err ends it
RECURSIVE CollectHeaders(_, _, _)
CollectHeaders(pieces, k, acc) ==
    LET Collect(h) ==
            IF h.tag = "Err" THEN h
            ELSE CollectHeaders(pieces, k + 1, Append(acc, h.val))
    IN  IF k > Len(pieces) THEN Ok(acc) ELSE Collect(Header_try_from(pieces[k]))

parse_header_line(s) == CollectHeaders(Split(s, "|"), 1, <<>>)

----------------------------------------------------------------------------
(* base.rs: the three branches of the line loop of Response::try_from *)

SeqnPrefix == "## seqn = "

\* variant: the number is parsed before seqn is tested
SeqnBranch_ParseFirst(seqn_, number_part) ==
    LET Set(n) == IF n.tag = "Err" THEN n
                  ELSE IF seqn_.some THEN Err(MultipleSeqn)
                  ELSE Ok(Some(n.val))
    IN  Set(ParseU32(number_part))

\* variant: a later seqn line silently replaces the earlier one
SeqnBranch_Overwrite(seqn_, number_part) ==
    LET Set(n) == IF n.tag = "Err" THEN n ELSE Ok(Some(n.val))
    IN  Set(ParseU32(number_part))

\* lines 185-188: the new value of seqn
SeqnBranch(seqn_, number_part) ==
    LET Set(n) == IF n.tag = "Err" THEN n ELSE Ok(Some(n.val))
    IN  IF seqn_.some THEN Err(MultipleSeqn) ELSE Set(ParseU32(number_part))

\* line 190: the new value of headers
HeaderBranch(line) ==
    LET Set(hs) == IF hs.tag = "Err" THEN hs ELSE Ok(Some(hs.val))
    IN  Set(parse_header_line(line))

\* variant: the record is pushed whatever its length
RecordBranch_Unchecked(headers_, line) == Ok(Split(line, "|"))

\* variant: the two lengths of the error are swapped
RecordBranch_Swapped(headers_, line) ==
    LET Check(record, headers_len) ==
            IF Len(record) # headers_len
            THEN Err(MismatchedRecordLength(headers_len, Len(record)))
            ELSE Ok(record)
    IN  Check(Split(line, "|"), Len(headers_.v))

\* lines 193-199: the record to push
RecordBranch(headers_, line) ==
    LET Check(record, headers_len) ==
            IF Len(record) # headers_len
            THEN Err(MismatchedRecordLength(Len(record), headers_len))
            ELSE Ok(record)
    IN  Check(Split(line, "|"), Len(headers_.v))

\* variant: the branches in another order, the header test first, so that a
\* seqn line is only recognised after the header line
LineStep_HeaderFirst(st, line) ==
    LET SetSeqn(s) == IF s.tag = "Err" THEN s ELSE Ok([st EXCEPT !.seqn = s.val])
        SetHeaders(h) == IF h.tag = "Err" THEN h ELSE Ok([st EXCEPT !.headers = h.val])
        Push(rec) == IF rec.tag = "Err" THEN rec
                     ELSE Ok([st EXCEPT !.records = Append(@, rec.val)])
        Branch(number_part) ==
            IF ~st.headers.some THEN SetHeaders(HeaderBranch(line))
            ELSE IF number_part.some THEN SetSeqn(SeqnBranch(st.seqn, number_part.v))
            ELSE Push(RecordBranch(st.headers, line))
    IN  Branch(StripPrefix(line, SeqnPrefix))

\* one iteration of the loop on the locals st = [headers, seqn, records]
LineStep(st, line) ==
    LET SetSeqn(s) == IF s.tag = "Err" THEN s ELSE Ok([st EXCEPT !.seqn = s.val])
        SetHeaders(h) == IF h.tag = "Err" THEN h ELSE Ok([st EXCEPT !.headers = h.val])
        Push(rec) == IF rec.tag = "Err" THEN rec
                     ELSE Ok([st EXCEPT !.records = Append(@, rec.val)])
        Branch(number_part) ==
            IF number_part.some THEN SetSeqn(SeqnBranch(st.seqn, number_part.v))
            ELSE IF ~st.headers.some THEN SetHeaders(HeaderBranch(line))
            ELSE Push(RecordBranch(st.headers, line))
    IN  Branch(StripPrefix(line, SeqnPrefix))

\* lines 203-210: after the loop
Finish(st) ==
    IF ~st.headers.some THEN Err(ExpectedHeaderLine)
    ELSE IF ~st.seqn.some THEN Err(ExpectedSeqnLine)
    ELSE Ok([seqn |-> st.seqn.v, headers |-> st.headers.v, records |-> st.records])

RECURSIVE LineLoop(_, _, _)
LineLoop(ls, k, st) ==
    LET Continue(s) == IF s.tag = "Err" THEN s ELSE LineLoop(ls, k + 1, s.val)
    IN  IF k > Len(ls) THEN Finish(st) ELSE Continue(LineStep(st, ls[k]))

Locals0 == [headers |-> None, seqn |-> None, records |-> <<>>]

\* TryFrom<&str> for Response, on the lines of the text
Response_try_from(ls) == LineLoop(ls, 1, Locals0)

----------------------------------------------------------------------------
(* base.rs: field decoders *)

STRING_TYPE == [name |-> "String", length |-> 0]

HEX16_TYPE == [name |-> "Hex", length |-> 16]

DEC4_TYPE == [name |-> "Dec", length |-> 4]

\* let mut bytes = [0; 16]
Hex16Len == 16

ZeroBytes == [k \in 1..Hex16Len |-> 0]

Min2(a, b) == IF a < b THEN a ELSE b

\* lines 264-269: chunk idx (from 0) is parsed first, then stored at
\* bytes[idx], which is out of bounds (a panic) from idx = 16 on
RECURSIVE HexChunks(_, _, _)
HexChunks(value, idx, bytes) ==
    LET Store(b) ==
            IF b.tag = "Err" THEN b
            ELSE IF idx >= Hex16Len THEN Panic
            ELSE HexChunks(value, idx + 1, [bytes EXCEPT ![idx + 1] = b.val])
    IN  IF 2 * idx >= Len(value) THEN Ok(Some(bytes))
        ELSE Store(ParseHexU8(SubSeq(value, 2 * idx + 1, Min2(2 * idx + 2, Len(value)))))

OptionHex16_try_from(f) ==
    IF f.type_ # HEX16_TYPE
    THEN Err(UnexpectedType(Type_fmt(f.type_), Type_fmt(HEX16_TYPE)))
    ELSE IF f.value = "" THEN Ok(None)
    ELSE HexChunks(f.value, 0, ZeroBytes)

\* variant: an absent value becomes sixteen zero bytes
Hex16_try_from_ZeroDefault(f) ==
    LET Present(opt) ==
            IF opt.tag # "Ok" THEN opt
            ELSE IF opt.val.some THEN Ok(opt.val.v)
            ELSE Ok(ZeroBytes)
    IN  Present(OptionHex16_try_from(f))

Hex16_try_from(f) ==
    LET Present(opt) ==
            IF opt.tag # "Ok" THEN opt
            ELSE IF opt.val.some THEN Ok(opt.val.v)
            ELSE Err(EmptyField(Type_fmt(f.type_)))
    IN  Present(OptionHex16_try_from(f))

Dec4_try_from(f) ==
    IF f.type_ # DEC4_TYPE
    THEN Err(UnexpectedType(Type_fmt(f.type_), Type_fmt(DEC4_TYPE)))
    ELSE ParseU32(f.value)

\* variant: only the type name is compared, the declared length is free
String0_try_from_AnyLength(f) ==
    IF f.type_.name # STRING_TYPE.name
    THEN Err(UnexpectedType(Type_fmt(f.type_), Type_fmt(DEC4_TYPE)))
    ELSE Ok(f.value)

String0_try_from(f) ==
    IF f.type_ # STRING_TYPE
    THEN Err(UnexpectedType(Type_fmt(f.type_), Type_fmt(DEC4_TYPE)))
    ELSE Ok(f.value)

----------------------------------------------------------------------------
(* base.rs: Record::get_field_by_header_name; summary.rs, versions.rs *)

\* find_map over the headers: the first header of that name; values[idx]
\* is an indexing that panics when the row is shorter than the headers
RECURSIVE FindField(_, _, _, _)
FindField(hs, values, name, k) ==
    IF k > Len(hs) THEN Ok(None)
    ELSE IF hs[k].name = name
         THEN IF k > Len(values) THEN Panic
              ELSE Ok(Some([type_ |-> hs[k].type_, value |-> values[k]]))
    ELSE FindField(hs, values, name, k + 1)

get_field_by_header_name(hs, values, name) == FindField(hs, values, name, 1)

\* try_into(): the TryFrom<&Field> impl of the target type of the record field
try_into(target, f) ==
    CASE target = "String0" -> String0_try_from(f)
      [] target = "Dec4" -> Dec4_try_from(f)
      [] target = "Hex16" -> Hex16_try_from(f)
      [] target = "OptionHex16" -> OptionHex16_try_from(f)

\* record.get_field_by_header_name(name).ok_or(ExpectedField(name))?.try_into()
GetAndDecode(hs, values, name, target) ==
    LET Found(f) ==
            IF f.tag # "Ok" THEN f
            ELSE IF ~f.val.some THEN Err(ExpectedField(name))
            ELSE try_into(target, f.val.v)
    IN  Found(get_field_by_header_name(hs, values, name))

\* variant: a lacking Flags column is reported under the name Seqn
Summary_Record_try_from_WrongName(hs, values) ==
    LET Build(product, seqn_, flags) ==
            IF product.tag # "Ok" THEN product
            ELSE IF seqn_.tag # "Ok" THEN seqn_
            ELSE IF flags.tag = "Err" /\ flags.err.name = "ExpectedField"
                 THEN Err(ExpectedField("Seqn"))
            ELSE IF flags.tag # "Ok" THEN flags
            ELSE Ok([product |-> product.val, seqn |-> seqn_.val, flags |-> flags.val])
    IN  Build(GetAndDecode(hs, values, "Product", "String0"),
              GetAndDecode(hs, values, "Seqn", "Dec4"),
              GetAndDecode(hs, values, "Flags", "String0"))

\* the fields in the order of the struct literal; each `?` returns the
\* first failure, so a later field is looked at only when the earlier
\* ones converted
Summary_Record_try_from(hs, values) ==
    LET Build(product, seqn_, flags) ==
            IF product.tag # "Ok" THEN product
            ELSE IF seqn_.tag # "Ok" THEN seqn_
            ELSE IF flags.tag # "Ok" THEN flags
            ELSE Ok([product |-> product.val, seqn |-> seqn_.val, flags |-> flags.val])
    IN  Build(GetAndDecode(hs, values, "Product", "String0"),
              GetAndDecode(hs, values, "Seqn", "Dec4"),
              GetAndDecode(hs, values, "Flags", "String0"))

Versions_Record_try_from(hs, values) ==
    LET Build(region, build_config, cdn_config, key_ring, build_id,
              versions_name, product_config) ==
            IF region.tag # "Ok" THEN region
            ELSE IF build_config.tag # "Ok" THEN build_config
            ELSE IF cdn_config.tag # "Ok" THEN cdn_config
            ELSE IF key_ring.tag # "Ok" THEN key_ring
            ELSE IF build_id.tag # "Ok" THEN build_id
            ELSE IF versions_name.tag # "Ok" THEN versions_name
            ELSE IF product_config.tag # "Ok" THEN product_config
            ELSE Ok([region |-> region.val, build_config |-> build_config.val,
                     cdn_config |-> cdn_config.val, key_ring |-> key_ring.val,
                     build_id |-> build_id.val, versions_name |-> versions_name.val,
                     product_config |-> product_config.val])
    IN  Build(GetAndDecode(hs, values, "Region", "String0"),
              GetAndDecode(hs, values, "BuildConfig", "Hex16"),
              GetAndDecode(hs, values, "CDNConfig", "Hex16"),
              GetAndDecode(hs, values, "KeyRing", "OptionHex16"),
              GetAndDecode(hs, values, "BuildId", "Dec4"),
              GetAndDecode(hs, values, "VersionsName", "String0"),
              GetAndDecode(hs, values, "ProductConfig", "Hex16"))

Record_try_from(k, hs, values) ==
    IF k = "summary" THEN Summary_Record_try_from(hs, values)
    ELSE Versions_Record_try_from(hs, values)

\* iter_records().map(TryInto::try_into).collect::<Result<_>>(): records in
\* order, the first one that does not convert ends it
RECURSIVE CollectRecords(_, _, _, _, _)
CollectRecords(k, hs, recs, n, acc) ==
    LET Collect(rec) ==
            IF rec.tag # "Ok" THEN rec
            ELSE CollectRecords(k, hs, recs, n + 1, Append(acc, rec.val))
    IN  IF n > Len(recs) THEN Ok(acc) ELSE Collect(Record_try_from(k, hs, recs[n]))

\* TryFrom<BaseResponse> for summary::Response / versions::Response
Schema_Response_try_from(k, table) ==
    LET Wrap(recs) ==
            IF recs.tag # "Ok" THEN recs
            ELSE Ok([seqn |-> table.seqn, records |-> recs.val])
    IN  Wrap(CollectRecords(k, table.headers, table.records, 1, <<>>))

\* TryFrom<&str> for summary::Response / versions::Response
Decode(k, ls) ==
    LET Project(table) ==
            IF table.tag # "Ok" THEN table ELSE Schema_Response_try_from(k, table.val)
    IN  Project(Response_try_from(ls))

----------------------------------------------------------------------------
(* Inputs *)

SummaryHeader == "Product!STRING:0|Seqn!DEC:4|Flags!STRING:0"

VersionsHeader ==
    "Region!STRING:0|BuildConfig!HEX:16|CDNConfig!HEX:16|KeyRing!HEX:16|BuildId!DEC:4|VersionsName!String:0|ProductConfig!HEX:16"

HexA == "47e9e06f8371afb141e22614a912acc8"

HexB == "74093d42ce367c7a67f2831dbf64088d"

HexC == "53020d32e1a25648c8e1eafd5771935f"

\* lines a summary response is made of
SummaryLines ==
    { SummaryHeader,
      "Product!STRING:0|Seqn!DEC:4",
      "## seqn = 2119172",
      "## seqn = x",
      "agent|1476930|cdn",
      "agent_beta|x|",
      "agent|2118018",
      "agent_beta|x" }

\* lines a versions response is made of
VersionsLines ==
    { VersionsHeader,
      "## seqn = 2118468",
      "us|" \o HexA \o "|" \o HexB \o "||53584|10.2.5.53584|" \o HexC,
      "eu|" \o HexA \o "|" \o HexB \o "|" \o HexC \o "|53584|10.2.5.53584|" \o HexC,
      "kr|" \o HexA \o "ffff|" \o HexB \o "||53584|10.2.5.53584|" \o HexC,
      "cn|" \o HexA \o "|zz|" \o HexC \o "|53584|10.2.5.53584|" }

LinesOf(k) == IF k = "summary" THEN SummaryLines ELSE VersionsLines

SeqsUpTo(S, n) == UNION { [1..m -> S] : m \in 0..n }

RECURSIVE Join(_, _)
Join(ls, sep) ==
    IF ls = <<>> THEN ""
    ELSE IF Len(ls) = 1 THEN ls[1]
    ELSE ls[1] \o sep \o Join(Tail(ls), sep)

TypeNames == {"String", "Hex", "Dec"}

\* declared types: the three the decoders require, and their neighbours
FieldTypes == [name : TypeNames, length : {0, 4, 8, 16}]

FieldValues ==
    { "", "cdn", "53584", "+7", "4294967296", "12x",
      HexA, ToUppercase(HexB),
      "47", "47e", SubSeq(HexA, 1, 30), HexA \o "ff", HexA \o "zz",
      "+f" \o SubSeq(HexA, 3, 32), SubSeq(HexA, 1, 30) \o "g0" }

Fields == [type_ : FieldTypes, value : FieldValues]

Decoders == {"OptionHex16", "Hex16", "Dec4", "String0"}

IdleField == [type_ |-> STRING_TYPE, value |-> ""]

IdleDecoded == [d \in Decoders |-> Pending]

----------------------------------------------------------------------------
(* The decode of one response: api.rs get_summary / get_versions hand the  *)
(* byte buffer to TryFrom<&[u8]>                                           *)

Init ==
    /\ kind \in {"summary", "versions"}
    /\ \/ /\ utf8_ok = TRUE
          /\ \E ls \in SeqsUpTo(LinesOf(kind), MaxLines) : input = Join(ls, "\n")
       \/ /\ utf8_ok = FALSE
          /\ input = ""
    /\ pc = "from_utf8"
    /\ lines = <<>>
    /\ i = 1
    /\ headers = None
    /\ seqn = None
    /\ records = <<>>
    /\ r = 1
    /\ out = <<>>
    /\ result = Pending
    /\ field = IdleField
    /\ decoded = IdleDecoded
    /\ lookup = ""

Return(res) ==
    /\ result' = res
    /\ pc' = "done"

\* base.rs 217-219
FromUtf8 ==
    /\ pc = "from_utf8"
    /\ IF utf8_ok
       THEN /\ lines' = Lines(input)
            /\ pc' = "loop"
            /\ UNCHANGED result
       ELSE /\ Return(Err(Utf8))
            /\ UNCHANGED lines
    /\ UNCHANGED <<kind, utf8_ok, input, i, headers, seqn, records, r, out, field, decoded, lookup>>

InLoop == pc = "loop" /\ i <= Len(lines)

Locals == [headers |-> headers, seqn |-> seqn, records |-> records]

\* one iteration of the loop on the line lines[i]: `?` and `return Err`
\* leave the function, otherwise the locals are updated
LoopBody ==
    /\ LET Apply(s) ==
               IF s.tag = "Err"
               THEN Return(s) /\ UNCHANGED <<i, headers, seqn, records>>
               ELSE /\ headers' = s.val.headers
                    /\ seqn' = s.val.seqn
                    /\ records' = s.val.records
                    /\ i' = i + 1
                    /\ UNCHANGED <<pc, result>>
       IN  Apply(LineStep(Locals, lines[i]))
    /\ UNCHANGED <<kind, utf8_ok, input, lines, r, out, field, decoded, lookup>>

\* base.rs 184-188: the line has the seqn prefix
SeqnLine ==
    /\ InLoop
    /\ StripPrefix(lines[i], SeqnPrefix).some
    /\ LoopBody

\* base.rs 189-190: any other line while there are no headers
HeaderLine ==
    /\ InLoop
    /\ ~StripPrefix(lines[i], SeqnPrefix).some
    /\ ~headers.some
    /\ LoopBody

\* base.rs 191-200: any other line once there are headers
RecordLine ==
    /\ InLoop
    /\ ~StripPrefix(lines[i], SeqnPrefix).some
    /\ headers.some
    /\ LoopBody

\* base.rs 203-210
AfterLoop ==
    /\ pc = "loop"
    /\ i > Len(lines)
    /\ LET Apply(t) ==
               IF t.tag = "Err"
               THEN Return(t)
               ELSE pc' = "records" /\ UNCHANGED result
       IN  Apply(Finish(Locals))
    /\ UNCHANGED <<kind, utf8_ok, input, lines, i, headers, seqn, records, r, out, field, decoded, lookup>>

\* variant: the records are collected in reverse order
ProjectRecord_Prepend ==
    /\ pc = "records"
    /\ r <= Len(records)
    /\ LET Apply(rec) ==
               IF rec.tag = "Ok"
               THEN out' = <<rec.val>> \o out /\ r' = r + 1 /\ UNCHANGED <<pc, result>>
               ELSE Return(rec) /\ UNCHANGED <<r, out>>
       IN  Apply(Record_try_from(kind, headers.v, records[r]))
    /\ UNCHANGED <<kind, utf8_ok, input, lines, i, headers, seqn, records, field, decoded, lookup>>

\* variant: a record that does not convert is left out and the decode goes on
ProjectRecord_Skip ==
    /\ pc = "records"
    /\ r <= Len(records)
    /\ LET Apply(rec) ==
               /\ out' = IF rec.tag = "Ok" THEN Append(out, rec.val) ELSE out
               /\ r' = r + 1
               /\ UNCHANGED <<pc, result>>
       IN  Apply(Record_try_from(kind, headers.v, records[r]))
    /\ UNCHANGED <<kind, utf8_ok, input, lines, i, headers, seqn, records, field, decoded, lookup>>

\* summary.rs 60-63, versions.rs 92-95: the next record of iter_records()
ProjectRecord ==
    /\ pc = "records"
    /\ r <= Len(records)
    /\ LET Apply(rec) ==
               IF rec.tag = "Ok"
               THEN out' = Append(out, rec.val) /\ r' = r + 1 /\ UNCHANGED <<pc, result>>
               ELSE Return(rec) /\ UNCHANGED <<r, out>>
       IN  Apply(Record_try_from(kind, headers.v, records[r]))
    /\ UNCHANGED <<kind, utf8_ok, input, lines, i, headers, seqn, records, field, decoded, lookup>>

\* summary.rs 58-64, versions.rs 90-96: every record converted
ReturnResponse ==
    /\ pc = "records"
    /\ r > Len(records)
    /\ Return(Ok([seqn |-> seqn.v, records |-> out]))
    /\ UNCHANGED <<kind, utf8_ok, input, lines, i, headers, seqn, records, r, out, field, decoded, lookup>>

Next ==
    \/ FromUtf8
    \/ SeqnLine
    \/ HeaderLine
    \/ RecordLine
    \/ AfterLoop
    \/ ProjectRecord
    \/ ReturnResponse

Spec == Init /\ [][Next]_vars

----------------------------------------------------------------------------
(* The field decoders on their own: one Field, each decoder applied to it *)

FieldInit ==
    /\ kind = "summary"
    /\ utf8_ok = TRUE
    /\ input = ""
    /\ pc = "field"
    /\ lines = <<>>
    /\ i = 1
    /\ headers = None
    /\ seqn = None
    /\ records = <<>>
    /\ r = 1
    /\ out = <<>>
    /\ result = Pending
    /\ field \in Fields
    /\ decoded = IdleDecoded
    /\ lookup = ""

Try(d, res) ==
    /\ pc = "field"
    /\ decoded[d].tag = "Pending"
    /\ decoded' = [decoded EXCEPT ![d] = res]
    /\ UNCHANGED <<kind, utf8_ok, input, pc, lines, i, headers, seqn, records, r, out, result, field, lookup>>

TryOptionHex16 == Try("OptionHex16", OptionHex16_try_from(field))

TryHex16 == Try("Hex16", Hex16_try_from(field))

TryDec4 == Try("Dec4", Dec4_try_from(field))

TryString0 == Try("String0", String0_try_from(field))

FieldNext ==
    \/ TryOptionHex16
    \/ TryHex16
    \/ TryDec4
    \/ TryString0

FieldSpec == FieldInit /\ [][FieldNext]_vars

----------------------------------------------------------------------------
(* The header line on its own: one header line is parsed, a field of a row *)
(* under these headers is looked up by name and decoded                    *)

\* the pieces a header line is made of
HeaderPieces ==
    { "Product!STRING:0", "product!string:0", "Product !STRING:0", "Seqn!Dec:4",
      "Foo!BOGUS:0", "Foo!BOGUS:x", "Foo", "Foo!STRING", " Seqn! DEC:4",
      "A!B!HEX:16", "" }

\* the names a record is asked for
FieldNames == {"Product", "product", "Seqn"}

\* the raw value of column k of the row
RowValue(k) == FormatUsize(k) \o FormatUsize(k)

HeaderInit ==
    /\ kind = "summary"
    /\ utf8_ok = TRUE
    /\ \E ps \in SeqsUpTo(HeaderPieces, MaxCols) : ps # <<>> /\ input = Join(ps, "|")
    /\ pc = "parse_header_line"
    /\ lines = <<>>
    /\ i = 1
    /\ headers = None
    /\ seqn = None
    /\ records = <<>>
    /\ r = 1
    /\ out = <<>>
    /\ result = Pending
    /\ field = IdleField
    /\ decoded = IdleDecoded
    /\ lookup = ""

\* base.rs 135-139, 190, then a row of as many values as there are headers
\* (base.rs 193-200)
ParseHeaderLine ==
    /\ pc = "parse_header_line"
    /\ LET Apply(hs) ==
               IF hs.tag = "Err"
               THEN Return(hs) /\ UNCHANGED <<headers, records>>
               ELSE /\ headers' = Some(hs.val)
                    /\ records' = << [k \in 1..Len(hs.val) |-> RowValue(k)] >>
                    /\ pc' = "get_field"
                    /\ UNCHANGED result
       IN  Apply(parse_header_line(input))
    /\ UNCHANGED <<kind, utf8_ok, input, lines, i, seqn, r, out, field, decoded, lookup>>

\* base.rs 316-329 and the ok_or(ExpectedField(name))? of summary.rs 25-27
GetField ==
    /\ pc = "get_field"
    /\ \E n \in FieldNames :
          /\ lookup' = n
          /\ LET Apply(f) ==
                     IF f.tag # "Ok" THEN Return(f) /\ UNCHANGED field
                     ELSE IF ~f.val.some THEN Return(Err(ExpectedField(n))) /\ UNCHANGED field
                     ELSE field' = f.val.v /\ pc' = "field" /\ UNCHANGED result
             IN  Apply(get_field_by_header_name(headers.v, records[1], n))
    /\ UNCHANGED <<kind, utf8_ok, input, lines, i, headers, seqn, records, r, out, decoded>>

HeaderNext ==
    \/ ParseHeaderLine
    \/ GetField
    \/ TryDec4
    \/ TryString0

HeaderSpec == HeaderInit /\ [][HeaderNext]_vars

----------------------------------------------------------------------------
(* What the wire format means, stated without the decoder: used by the     *)
(* properties below                                                        *)

DecDigits == { Ch(DigitChars, k) : k \in 1..10 }

HexDigits == { Ch(DigitChars, k) : k \in 1..16 } \cup { Ch(UpperDigitChars, k) : k \in 1..16 }

AllIn(v, S) == \A k \in 1..Len(v) : Ch(v, k) \in S

\* a decimal numeral of at most 9 digits: always below 2^32
IsDecText(v) == Len(v) \in 1..9 /\ AllIn(v, DecDigits)

DecDigitValue(c) == CHOOSE d \in 0..9 : Ch(DigitChars, d + 1) = c

\* the number the first n characters of the numeral v denote
RECURSIVE NumeralValue(_, _)
NumeralValue(v, n) ==
    IF n = 0 THEN 0 ELSE NumeralValue(v, n - 1) * 10 + DecDigitValue(Ch(v, n))

IsHex32(v) == Len(v) = 2 * Hex16Len /\ AllIn(v, HexDigits)

HexDigitValue(c) ==
    CHOOSE d \in 0..15 : Ch(DigitChars, d + 1) = c \/ Ch(UpperDigitChars, d + 1) = c

\* the 16 bytes a text of 32 hex digits encodes
BytesOf(v) ==
    [k \in 1..Hex16Len |-> 16 * HexDigitValue(Ch(v, 2 * k - 1)) + HexDigitValue(Ch(v, 2 * k))]

Col(n, t, rule) == [name |-> n, type |-> t, rule |-> rule]

SummarySchema ==
    << Col("Product", "STRING:0", "String0"), Col("Seqn", "DEC:4", "Dec4"),
       Col("Flags", "STRING:0", "String0") >>

VersionsSchema ==
    << Col("Region", "STRING:0", "String0"), Col("BuildConfig", "HEX:16", "Hex16"),
       Col("CDNConfig", "HEX:16", "Hex16"), Col("KeyRing", "HEX:16", "OptionHex16"),
       Col("BuildId", "DEC:4", "Dec4"), Col("VersionsName", "STRING:0", "String0"),
       Col("ProductConfig", "HEX:16", "Hex16") >>

SchemaOf(k) == IF k = "summary" THEN SummarySchema ELSE VersionsSchema

IsColumn(piece, col) ==
    LET sp == SplitOnce(piece, "!")
    IN  sp.some /\ sp.v[1] = col.name /\ ToUppercase(sp.v[2]) = col.type

\* the header line declares exactly the columns of the schema, in any order
HeaderMatches(k, line) ==
    LET ps == Split(line, "|")
    IN  /\ Len(ps) = Len(SchemaOf(k))
        /\ \A c \in 1..Len(SchemaOf(k)) : \E j \in 1..Len(ps) : IsColumn(ps[j], SchemaOf(k)[c])

ColumnOf(hline, col) ==
    LET ps == Split(hline, "|")
    IN  CHOOSE j \in 1..Len(ps) : IsColumn(ps[j], col)

FieldOk(rule, v) ==
    CASE rule = "String0" -> TRUE
      [] rule = "Dec4" -> IsDecText(v)
      [] rule = "Hex16" -> IsHex32(v)
      [] rule = "OptionHex16" -> v = "" \/ IsHex32(v)

FieldMeaning(rule, v) ==
    CASE rule = "String0" -> v
      [] rule = "Dec4" -> NumeralValue(v, Len(v))
      [] rule = "Hex16" -> BytesOf(v)
      [] rule = "OptionHex16" -> IF v = "" THEN None ELSE Some(BytesOf(v))

RowOk(k, hline, row) ==
    LET fs == Split(row, "|")
    IN  /\ Len(fs) = Len(SchemaOf(k))
        /\ \A c \in 1..Len(SchemaOf(k)) :
              FieldOk(SchemaOf(k)[c].rule, fs[ColumnOf(hline, SchemaOf(k)[c])])

\* the value of schema column c in the row
Meaning(k, hline, row, c) ==
    FieldMeaning(SchemaOf(k)[c].rule, Split(row, "|")[ColumnOf(hline, SchemaOf(k)[c])])

RowMeaning(k, hline, row) ==
    IF k = "summary"
    THEN [product |-> Meaning(k, hline, row, 1), seqn |-> Meaning(k, hline, row, 2),
          flags |-> Meaning(k, hline, row, 3)]
    ELSE [region |-> Meaning(k, hline, row, 1), build_config |-> Meaning(k, hline, row, 2),
          cdn_config |-> Meaning(k, hline, row, 3), key_ring |-> Meaning(k, hline, row, 4),
          build_id |-> Meaning(k, hline, row, 5), versions_name |-> Meaning(k, hline, row, 6),
          product_config |-> Meaning(k, hline, row, 7)]

HasSeqnPrefix(line) ==
    Len(line) >= Len(SeqnPrefix) /\ SubSeq(line, 1, Len(SeqnPrefix)) = SeqnPrefix

AfterPrefix(line) == SubSeq(line, Len(SeqnPrefix) + 1, Len(line))

\* the positions of the lines with the seqn prefix, and of the other lines
SeqnAt(ls) == { k \in 1..Len(ls) : HasSeqnPrefix(ls[k]) }

OtherAt(ls) == { k \in 1..Len(ls) : ~HasSeqnPrefix(ls[k]) }

MinOf(S) == CHOOSE m \in S : \A n \in S : m <= n

\* the m-th smallest element of S
RECURSIVE Nth(_, _)
Nth(S, m) == IF m = 1 THEN MinOf(S) ELSE Nth(S \ {MinOf(S)}, m - 1)

\* one seqn line with a number, a header of the schema, then rows of the schema
WellFormed(k, ls) ==
    LET sq == SeqnAt(ls)
        other == OtherAt(ls)
        hd == MinOf(other)
    IN  /\ Cardinality(sq) = 1
        /\ IsDecText(AfterPrefix(ls[MinOf(sq)]))
        /\ other # {}
        /\ HeaderMatches(k, ls[hd])
        /\ \A j \in other \ {hd} : RowOk(k, ls[hd], ls[j])

Done == pc = "done"

----------------------------------------------------------------------------
(* Properties *)

\* C1: a well-formed input (one schema header, one seqn line, N well-formed
\* rows) decodes successfully: the seqn is the seqn line's number, there are
\* exactly N records, and record j is the meaning of the j-th data row.
C1_RoundTrip ==
    (Done /\ utf8_ok /\ WellFormed(kind, lines)) =>
        LET hd == MinOf(OtherAt(lines))
            rows == OtherAt(lines) \ {hd}
            sq == AfterPrefix(lines[MinOf(SeqnAt(lines))])
        IN  /\ result.tag = "Ok"
            /\ result.val.seqn = NumeralValue(sq, Len(sq))
            /\ Len(result.val.records) = Cardinality(rows)
            /\ \A j \in 1..Cardinality(rows) :
                  result.val.records[j] = RowMeaning(kind, lines[hd], lines[Nth(rows, j)])

C1_Witness ==
    /\ Done /\ utf8_ok /\ WellFormed(kind, lines)
    /\ kind = "versions"
    /\ result.tag = "Ok"
    /\ Len(result.val.records) = 2
    /\ result.val.records[1] # result.val.records[2]

\* C2: whatever the input, the decode ends by returning a response or a
\* typed Error, never by aborting in another way (a panic).
C2_NoAbort == Done => result.tag \in {"Ok", "Err"}

\* the number of fields of a line
Width(line) == Len(Split(line, "|"))

\* line k raises no table-level problem when the loop reaches it: a seqn line
\* is the first one (sq) and its number parses, the first other line (hd)
\* parses as a header, any other line has as many fields (w) as the header line
LineCleanAt(ls, k, sq, hd, w) ==
    IF HasSeqnPrefix(ls[k])
    THEN k = sq /\ ParseU32(AfterPrefix(ls[k])).tag = "Ok"
    ELSE IF k = hd
    THEN parse_header_line(ls[k]).tag = "Ok"
    ELSE Width(ls[k]) = w

\* the lines that are not clean
Unclean(ls) ==
    LET sq == MinOf(SeqnAt(ls))
        hd == MinOf(OtherAt(ls))
        w == Width(ls[hd])
    IN  { k \in 1..Len(ls) : ~LineCleanAt(ls, k, sq, hd, w) }

CleanBefore(ls, k) == \A j \in Unclean(ls) : j >= k

\* the data rows whose field count is not the header line's
BadArity(ls) ==
    LET hd == MinOf(OtherAt(ls))
        w == Width(ls[hd])
    IN  { k \in OtherAt(ls) : k # hd /\ Width(ls[k]) # w }

\* C4 as stated: a data row whose field count differs from the header's
\* makes the decode fail with MismatchedRecordLength, on every input.
C4_Original ==
    (Done /\ utf8_ok /\ BadArity(lines) # {}) =>
        result.tag = "Err" /\ result.err.name = "MismatchedRecordLength"

\* C4 amended: such a row always makes the decode fail, without records; the
\* error is MismatchedRecordLength(got, expected) of the first such row unless
\* an earlier line has already failed (a header or seqn number that does not
\* parse, a second seqn line), and no other row's mismatch is ever reported.
C4_Arity ==
    (Done /\ utf8_ok) =>
        LET bad == BadArity(lines)
            b == MinOf(bad)
            mismatch == MismatchedRecordLength(Width(lines[b]),
                                               Width(lines[MinOf(OtherAt(lines))]))
        IN  bad # {} =>
              /\ result.tag = "Err"
              /\ result.val = NoVal
              /\ CleanBefore(lines, b) => result.err = mismatch
              /\ result.err.name = "MismatchedRecordLength" => result.err = mismatch

C4_Witness ==
    /\ Done /\ utf8_ok /\ BadArity(lines) # {}
    /\ Cardinality(BadArity(lines)) = 2
    /\ CleanBefore(lines, MinOf(BadArity(lines)))
    /\ result.err = MismatchedRecordLength(3, 2)

\* C5 as stated: no seqn line gives ExpectedSeqnLine and two or more give
\* MultipleSeqn, on every input.
C5_Original ==
    (Done /\ utf8_ok) =>
        /\ Cardinality(SeqnAt(lines)) = 0 => (result.tag = "Err" /\ result.err = ExpectedSeqnLine)
        /\ Cardinality(SeqnAt(lines)) >= 2 => (result.tag = "Err" /\ result.err = MultipleSeqn)

\* C5 amended: an input without a seqn line fails, with ExpectedSeqnLine when
\* it has a header line and no line fails before the end (ExpectedHeaderLine
\* when it has no line at all); an input with two or more seqn lines fails,
\* with MultipleSeqn when no line before the second seqn line fails.
C5_SeqnCount ==
    (Done /\ utf8_ok) =>
        /\ Cardinality(SeqnAt(lines)) = 0 =>
              /\ result.tag = "Err"
              /\ (lines # <<>> /\ CleanBefore(lines, Len(lines) + 1)) => result.err = ExpectedSeqnLine
              /\ lines = <<>> => result.err = ExpectedHeaderLine
        /\ Cardinality(SeqnAt(lines)) >= 2 =>
              /\ result.tag = "Err"
              /\ CleanBefore(lines, Nth(SeqnAt(lines), 2)) => result.err = MultipleSeqn

C5_Witness ==
    /\ Done /\ utf8_ok
    /\ Cardinality(SeqnAt(lines)) = 2
    /\ CleanBefore(lines, Nth(SeqnAt(lines), 2))
    /\ headers.some /\ records # <<>>
    /\ result.err = MultipleSeqn

Tried(d) == pc = "field" /\ decoded[d].tag # "Pending"

\* C3: a non-empty value in a HEX:16 column decodes only if it is exactly 32
\* hex digits, then to the 16 bytes they encode; every other value (shorter,
\* longer, odd length, a character that is no hex digit) is rejected with an
\* error.
C3_HexExact ==
    (Tried("OptionHex16") /\ field.type_ = HEX16_TYPE /\ field.value # "") =>
        LET d == decoded["OptionHex16"]
        IN  IF IsHex32(field.value)
            THEN d.tag = "Ok" /\ d.val = Some(BytesOf(field.value))
            ELSE d.tag = "Err"

\* C7 as stated: a column declared STRING with any length decodes to its raw
\* text.
C7_Original ==
    (Tried("String0") /\ field.type_.name = "String") =>
        decoded["String0"].tag = "Ok" /\ decoded["String0"].val = field.value

\* C7 amended: the string decoder returns the raw text, of any length and
\* content, only for a column declared exactly STRING:0; a STRING column of any
\* other declared length (and any other type) fails with UnexpectedType: the
\* declared length 0 is enforced as 16 is for hex and 4 for dec.
C7_String0 ==
    Tried("String0") =>
        LET d == decoded["String0"]
        IN  IF field.type_.name = "String" /\ field.type_.length = 0
            THEN d.tag = "Ok" /\ d.val = field.value
            ELSE d.tag = "Err" /\ d.err.name = "UnexpectedType"

C7_Witness ==
    /\ Tried("String0")
    /\ field.type_.name = "String" /\ field.type_.length = 16
    /\ field.value = "cdn"
    /\ decoded["String0"].err.name = "UnexpectedType"

\* C8: in a HEX:16 column an empty value is absent (None) for the optional
\* hex decoder and EmptyField for the required one; a non-empty value has the
\* same outcome, and when it decodes the same bytes, through both.
C8_OptionalHex ==
    (pc = "field" /\ field.type_ = HEX16_TYPE) =>
        LET o == decoded["OptionHex16"]
            q == decoded["Hex16"]
        IN  /\ (o.tag # "Pending" /\ field.value = "") => (o.tag = "Ok" /\ o.val = None)
            /\ (q.tag # "Pending" /\ field.value = "") =>
                  (q.tag = "Err" /\ q.err.name = "EmptyField")
            /\ (o.tag # "Pending" /\ q.tag # "Pending" /\ field.value # "") =>
                  /\ o.tag = q.tag
                  /\ o.tag = "Ok" => (o.val.some /\ o.val.v = q.val)
                  /\ o.tag = "Err" => o.err = q.err

C8_Witness ==
    /\ Tried("OptionHex16") /\ Tried("Hex16")
    /\ field.type_ = HEX16_TYPE
    /\ field.value = ""
    /\ decoded["OptionHex16"].val = None
    /\ decoded["Hex16"].err.name = "EmptyField"

\* the loop consumed every line and left both headers and seqn set
TableParsed ==
    utf8_ok /\ pc \in {"records", "done"} /\ i > Len(lines) /\ headers.some /\ seqn.some

\* the schema columns (by position in the schema) no header is named after
MissingColumns ==
    { c \in 1..Len(SchemaOf(kind)) :
        \A j \in 1..Len(headers.v) : headers.v[j].name # SchemaOf(kind)[c].name }

\* the outcome of schema column c on the row of values: the column is looked
\* up by name, then decoded
ColumnOutcome(hs, values, c) ==
    LET col == SchemaOf(kind)[c]
        at == { j \in 1..Len(hs) : hs[j].name = col.name }
    IN  IF at = {} THEN Err(ExpectedField(col.name))
        ELSE try_into(col.rule, [type_ |-> hs[MinOf(at)].type_, value |-> values[MinOf(at)]])

\* C6 as stated: when the table parses and the header lacks a column of the
\* schema, the decode fails with ExpectedField of a lacking name, whatever the
\* number of rows.
C6_Original ==
    (Done /\ TableParsed /\ MissingColumns # {}) =>
        /\ result.tag = "Err"
        /\ \E c \in MissingColumns : result.err = ExpectedField(SchemaOf(kind)[c].name)

\* C6 amended: when the table parses and the header lacks a column of the
\* schema, a table without data rows decodes successfully to no records; with
\* at least one row the decode does not succeed, and it fails with
\* ExpectedField(name), name being the first lacking one in schema order,
\* when the schema columns before it decode in the first row.
C6_ExpectedField ==
    (Done /\ TableParsed /\ MissingColumns # {}) =>
        LET m == MinOf(MissingColumns)
        IN  /\ records = <<>> =>
                  (result.tag = "Ok" /\ result.val = [seqn |-> seqn.v, records |-> <<>>])
            /\ records # <<>> => result.tag # "Ok"
            /\ (/\ records # <<>>
                /\ \A c \in 1..(m - 1) : ColumnOutcome(headers.v, records[1], c).tag = "Ok") =>
                  (result.tag = "Err" /\ result.err = ExpectedField(SchemaOf(kind)[m].name))

C6_Witness ==
    /\ Done /\ TableParsed /\ MissingColumns = {3}
    /\ Len(records) = 2
    /\ result.tag = "Err"
    /\ result.err = ExpectedField("Flags")

\* ls with the line at position from moved to position to
Move(ls, from, to) ==
    LET rest == SubSeq(ls, 1, from - 1) \o SubSeq(ls, from + 1, Len(ls))
    IN  SubSeq(rest, 1, to - 1) \o <<ls[from]>> \o SubSeq(rest, to, Len(rest))

\* C9 as stated: with exactly one seqn line, moving it to any other position
\* gives the same decode result, response or error.
C9_Original ==
    (Done /\ utf8_ok /\ Cardinality(SeqnAt(lines)) = 1) =>
        \A to \in 1..Len(lines) :
            SameResult(Decode(kind, Move(lines, MinOf(SeqnAt(lines)), to)), result)

\* C9 amended: with exactly one seqn line whose number parses as an unsigned
\* 32-bit integer, moving it to any other position gives the same decode
\* result (same response, same error, same abort).
C9_SeqnAnywhere ==
    (/\ Done /\ utf8_ok /\ Cardinality(SeqnAt(lines)) = 1
     /\ ParseU32(AfterPrefix(lines[MinOf(SeqnAt(lines))])).tag = "Ok") =>
        \A to \in 1..Len(lines) :
            SameResult(Decode(kind, Move(lines, MinOf(SeqnAt(lines)), to)), result)

C9_Witness ==
    /\ Done /\ utf8_ok /\ SeqnAt(lines) = {3}
    /\ Len(lines) = 4
    /\ result.tag = "Ok"
    /\ Len(result.val.records) = 2
    /\ SameResult(Decode(kind, Move(lines, 3, 1)), result)

\* the table-level problem of line k, for a line that is not clean
LineError(ls, k) ==
    IF HasSeqnPrefix(ls[k])
    THEN IF k # MinOf(SeqnAt(ls)) THEN MultipleSeqn ELSE ParseU32(AfterPrefix(ls[k])).err
    ELSE IF k = MinOf(OtherAt(ls)) THEN parse_header_line(ls[k]).err
    ELSE MismatchedRecordLength(Width(ls[k]), Width(ls[MinOf(OtherAt(ls))]))

\* the schema columns that do not decode in the row of values
FailingColumns(hs, values) ==
    { c \in 1..Len(SchemaOf(kind)) : ColumnOutcome(hs, values, c).tag # "Ok" }

\* the data rows, by line number, in which some schema column does not
\* decode under the header line hd
FailingRows(ls, hd) ==
    LET hs == parse_header_line(ls[hd]).val
    IN  { j \in OtherAt(ls) \ {hd} : FailingColumns(hs, Split(ls[j], "|")) # {} }

\* the outcome of the first schema column that does not decode in line j
RowProblem(ls, hd, j) ==
    LET hs == parse_header_line(ls[hd]).val
        values == Split(ls[j], "|")
    IN  ColumnOutcome(hs, values, MinOf(FailingColumns(hs, values)))

\* C10 as stated: the problem reported is the first one in line order, so a
\* field of a data row that does not decode, all lines up to that row being
\* sound, is reported whatever problem a later line has (arity, a second
\* seqn line, no seqn line at all).
C10_Original ==
    (Done /\ utf8_ok /\ OtherAt(lines) # {}) =>
        LET hd == MinOf(OtherAt(lines))
        IN  \A j \in OtherAt(lines) \ {hd} :
                (/\ CleanBefore(lines, j + 1)
                 /\ j = MinOf({j} \cup FailingRows(SubSeq(lines, 1, j), hd))
                 /\ j \in FailingRows(SubSeq(lines, 1, j), hd)) =>
                    SameResult(result, RowProblem(lines, hd, j))

\* C10 amended: a decode that does not succeed returns no partial result, and
\* its single outcome is chosen in two passes.  A table-level problem (a seqn
\* number or header that does not parse, a second seqn line, a row of the
\* wrong field count), the first in line order, or else a missing header or
\* seqn line, is reported in preference to any field that does not decode,
\* wherever it is.  Only when the whole table is sound are fields reported:
\* the outcome is that of the first row in row order with a field that does
\* not decode, and in it of the first such field in schema order.
C10_FirstProblem ==
    (Done /\ utf8_ok) =>
        LET unclean == Unclean(lines)
            other == OtherAt(lines)
            hd == MinOf(other)
            failing == FailingRows(lines, hd)
        IN  /\ result.tag # "Ok" => result.val = NoVal
            /\ unclean # {} =>
                  (result.tag = "Err" /\ result.err = LineError(lines, MinOf(unclean)))
            /\ (unclean = {} /\ other = {}) =>
                  (result.tag = "Err" /\ result.err = ExpectedHeaderLine)
            /\ (unclean = {} /\ other # {} /\ SeqnAt(lines) = {}) =>
                  (result.tag = "Err" /\ result.err = ExpectedSeqnLine)
            /\ (unclean = {} /\ other # {} /\ SeqnAt(lines) # {}) =>
                  IF failing = {}
                  THEN result.tag = "Ok" /\ Len(result.val.records) = Cardinality(other) - 1
                  ELSE SameResult(result, RowProblem(lines, hd, MinOf(failing)))

\* a row with two fields that do not decode, after a row that decodes
C10_Witness ==
    /\ Done /\ utf8_ok /\ kind = "versions"
    /\ Unclean(lines) = {}
    /\ Len(lines) = 4
    /\ SeqnAt(lines) = {1}
    /\ FailingRows(lines, 2) = {4}
    /\ Cardinality(FailingColumns(headers.v, records[2])) = 2
    /\ result.tag = "Err"
    /\ result.err = UnparseableInt("InvalidDigit")

----------------------------------------------------------------------------
(* Properties of the header line *)

LowerLetters == "abcdefghijklmnopqrstuvwxyz"

UpperLetters == "ABCDEFGHIJKLMNOPQRSTUVWXYZ"

\* the same character, or the two cases of one letter
SameLetter(c, d) ==
    \/ c = d
    \/ \E k \in 1..26 : {c, d} = {Ch(LowerLetters, k), Ch(UpperLetters, k)}

\* equal texts when the case of letters is ignored
EqIgnoreCase(a, b) ==
    Len(a) = Len(b) /\ \A k \in 1..Len(a) : SameLetter(Ch(a, k), Ch(b, k))

\* the text of a piece before and after its first c (the whole piece and
\* nothing when it has no c)
Before(p, c) ==
    IF \E k \in 1..Len(p) : Ch(p, k) = c
    THEN SubSeq(p, 1, MinOf({ k \in 1..Len(p) : Ch(p, k) = c }) - 1)
    ELSE p

After(p, c) ==
    IF \E k \in 1..Len(p) : Ch(p, k) = c
    THEN SubSeq(p, MinOf({ k \in 1..Len(p) : Ch(p, k) = c }) + 1, Len(p))
    ELSE ""

\* the pieces of the header line under parse
Pieces == Split(input, "|")

KnownTypeNames == {"STRING", "HEX", "DEC"}

\* the columns declared under exactly the name looked up
Named == { j \in 1..Len(Pieces) : Before(Pieces[j], "!") = lookup }

\* the header line was parsed
HeaderParsed == pc \in {"get_field", "field", "done"} /\ headers.some /\ i = 1 /\ lines = <<>>

\* a field has been looked up in the row under the parsed header line
LookedUp == HeaderParsed /\ lookup # ""

\* C11: a type name is recognised whatever the case of its letters (so no
\* spelling of STRING, HEX or DEC is an unknown type name, and a column
\* declared String:0 or string:0 decodes as a STRING:0 column does), while a
\* field is looked up by the exact, case-sensitive header name: the first
\* column so named is the one found, and with no column so named the lookup
\* fails with ExpectedField, even if a name differs only by case.
C11_CaseRules ==
    /\ (pc = "done" /\ result.tag = "Err" /\ result.err.name = "UnknownTypeName") =>
          \A T \in KnownTypeNames : ~EqIgnoreCase(result.err.s1, T)
    /\ HeaderParsed =>
          \A j \in 1..Len(headers.v) : \A T \in KnownTypeNames :
              EqIgnoreCase(Before(After(Pieces[j], "!"), ":"), T) =>
                  TypeName_fmt(headers.v[j].type_.name) = T
    /\ LookedUp =>
          IF Named = {}
          THEN pc = "done" /\ result.tag = "Err" /\ result.err = ExpectedField(lookup)
          ELSE /\ pc = "field"
               /\ field = [type_ |-> headers.v[MinOf(Named)].type_,
                           value |-> records[1][MinOf(Named)]]
    /\ (LookedUp /\ pc = "field" /\ Tried("String0")
            /\ EqIgnoreCase(After(Pieces[MinOf(Named)], "!"), "STRING:0")) =>
          (decoded["String0"].tag = "Ok" /\ decoded["String0"].val = field.value)

\* "Product" is asked of a line whose first column is "product", declared
\* string:0, and whose second is "Product", declared STRING:0
C11_Witness ==
    /\ LookedUp /\ pc = "field" /\ Tried("String0")
    /\ input = "product!string:0|Product!STRING:0"
    /\ lookup = "Product"
    /\ Named = {2}
    /\ headers.v[1].type_ = headers.v[2].type_
    /\ decoded["String0"].val = RowValue(2)

----------------------------------------------------------------------------
(* Properties of the table under construction *)

\* the first header of the name of header j
FirstNamed(hs, j) == MinOf({ h \in 1..Len(hs) : hs[h].name = hs[j].name })

\* C12: at every point of the line loop and in every table it returns, each
\* accumulated row has exactly as many fields as there are headers (and there
\* are headers as soon as there is a row); so looking up the name of any
\* header in any row finds a field, without an index out of bounds, whose
\* type and value are those at the index of the (first) header of that name.
C12_TableArity ==
    /\ records # <<>> => headers.some
    /\ \A k \in 1..Len(records) :
          /\ Len(records[k]) = Len(headers.v)
          /\ \A j \in 1..Len(headers.v) :
                LET f == get_field_by_header_name(headers.v, records[k], headers.v[j].name)
                IN  /\ f.tag = "Ok"
                    /\ f.val.some
                    /\ f.val.v.type_ = headers.v[FirstNamed(headers.v, j)].type_
                    /\ f.val.v.value = records[k][FirstNamed(headers.v, j)]

\* in the loop, two rows under the seven headers of a versions table
C12_Witness ==
    /\ pc = "loop" /\ i <= Len(lines)
    /\ headers.some /\ Len(headers.v) = 7
    /\ Len(records) = 2
    /\ records[1] # records[2]

----------------------------------------------------------------------------
(* Properties of the steps of the line loop *)

HeaderErrors == {"ExpectedBang", "ExpectedColon", "UnparseableInt", "UnknownTypeName"}

\* the step returns an Error of one of the names
FailsWith(names) ==
    pc' = "done" /\ result'.tag = "Err" /\ result'.err.name \in names

\* what a step of the loop does with a line that has the seqn prefix
SeqnLineStep(line) ==
    /\ headers' = headers
    /\ records' = records
    /\ IF seqn.some
       THEN FailsWith({"MultipleSeqn"}) /\ seqn' = seqn
       ELSE IF IsDecText(AfterPrefix(line))
       THEN /\ seqn' = Some(NumeralValue(AfterPrefix(line), Len(AfterPrefix(line))))
            /\ pc' = "loop" /\ i' = i + 1 /\ result' = result
       ELSE IF AfterPrefix(line) = "" \/ ~AllIn(AfterPrefix(line), DecDigits \cup {"+"})
       THEN FailsWith({"UnparseableInt"}) /\ seqn' = seqn
       ELSE TRUE

\* what a step of the loop does with a line that has no seqn prefix
OtherLineStep ==
    /\ seqn' = seqn
    /\ IF headers.some
       THEN headers' = headers
       ELSE /\ records' = records
            /\ \/ headers'.some /\ pc' = "loop" /\ i' = i + 1
               \/ headers' = headers /\ FailsWith(HeaderErrors)

\* C13: a line with the seqn prefix is never taken as the header line or as
\* a row: it leaves headers and records alone; the first one sets seqn to its
\* number or fails with an integer-parse error; a later one fails with
\* MultipleSeqn whatever follows the prefix and wherever it stands.  The first
\* line without the prefix becomes the header line (or fails as one), and
\* once set neither headers nor seqn changes.
C13_SeqnLines ==
    [][ /\ (pc = "loop" /\ i <= Len(lines)) =>
              IF HasSeqnPrefix(lines[i]) THEN SeqnLineStep(lines[i]) ELSE OtherLineStep
        /\ headers.some => headers' = headers
        /\ seqn.some => seqn' = seqn ]_vars

\* a second seqn line, before any header line, whose remainder is no number
C13_Witness ==
    /\ Done /\ utf8_ok
    /\ i = 2 /\ Len(lines) >= 2 /\ lines[2] = "## seqn = x"
    /\ seqn.some /\ ~headers.some
    /\ result.tag = "Err" /\ result.err = MultipleSeqn

----------------------------------------------------------------------------
(* Properties of the parse of a header line *)

Has(p, c) == \E k \in 1..Len(p) : Ch(p, k) = c

\* the TypeName a type name stands for, whatever the case of its letters
TypeNameOf(n) ==
    IF EqIgnoreCase(n, "STRING") THEN "String"
    ELSE IF EqIgnoreCase(n, "HEX") THEN "Hex"
    ELSE "Dec"

\* the problem of a piece NAME!TYPE:LEN of a header line, "" if it has none:
\* no "!"; no ":" after the first "!"; a length that is no numeral; a type
\* name that is none of STRING, HEX, DEC
PieceProblem(p) ==
    LET t == After(p, "!")
        n == Before(t, ":")
        l == After(t, ":")
    IN  IF ~Has(p, "!") THEN "ExpectedBang"
        ELSE IF ~Has(t, ":") THEN "ExpectedColon"
        ELSE IF l = "" \/ ~AllIn(l, DecDigits) THEN "UnparseableInt"
        ELSE IF \A T \in KnownTypeNames : ~EqIgnoreCase(n, T) THEN "UnknownTypeName"
        ELSE ""

\* the text the error of a piece carries: the piece, its type part, its
\* type name
PieceErrorText(p) ==
    LET t == After(p, "!")
    IN  IF ~Has(p, "!") THEN p
        ELSE IF ~Has(t, ":") THEN t
        ELSE Before(t, ":")

\* the header a piece without a problem declares, nothing trimmed
PieceMeaning(p) ==
    LET t == After(p, "!")
    IN  [name |-> Before(p, "!"),
         type_ |-> [name |-> TypeNameOf(Before(t, ":")),
                    length |-> NumeralValue(After(t, ":"), Len(After(t, ":")))]]

BadPieces == { j \in 1..Len(Pieces) : PieceProblem(Pieces[j]) # "" }

\* the parse of the header line returned an Error
HeaderFailed == pc = "done" /\ lookup = "" /\ ~headers.some /\ i = 1 /\ lines = <<>>

\* C14: the header line is cut at every "|" and each piece at its first "!",
\* the type part at its first ":", nothing trimmed.  The parse fails exactly
\* when some piece has a problem, with the error of the leftmost such piece:
\* ExpectedBang, else ExpectedColon, else an integer-parse error for the
\* length, else UnknownTypeName, in this order of precedence within the piece.
\* Otherwise there is one header per piece, in the order of the line.
C14_HeaderLine ==
    /\ HeaderFailed =>
          /\ BadPieces # {}
          /\ result.tag = "Err"
          /\ result.err.name = PieceProblem(Pieces[MinOf(BadPieces)])
          /\ result.err.name # "UnparseableInt" =>
                result.err.s1 = PieceErrorText(Pieces[MinOf(BadPieces)])
    /\ HeaderParsed =>
          /\ BadPieces = {}
          /\ Len(headers.v) = Len(Pieces)
          /\ \A j \in 1..Len(Pieces) : headers.v[j] = PieceMeaning(Pieces[j])

\* the second piece has a bad length and an unknown type name, the third no "!"
C14_Witness ==
    /\ HeaderFailed
    /\ input = "Product !STRING:0|Foo!BOGUS:x|Foo"
    /\ BadPieces = {2, 3}
    /\ result.err.name = "UnparseableInt"

----------------------------------------------------------------------------
(* Properties of the type check of the field decoders *)

\* the type each decoder requires of the column
RequiredType ==
    [d \in Decoders |->
        IF d \in {"OptionHex16", "Hex16"} THEN HEX16_TYPE
        ELSE IF d = "Dec4" THEN DEC4_TYPE
        ELSE STRING_TYPE]

\* C15: a decoder applied to a column whose declared type is not exactly the
\* type it requires fails with UnexpectedType, whatever the value (an empty
\* one too), and the error carries the declared type first and the type that
\* decoder requires second.
C15_UnexpectedType ==
    \A d \in Decoders :
        (Tried(d) /\ field.type_ # RequiredType[d]) =>
            /\ decoded[d].tag = "Err"
            /\ decoded[d].err = UnexpectedType(Type_fmt(field.type_), Type_fmt(RequiredType[d]))

====
